---------------------------- MODULE Spec2Model ----------------------------
(***************************************************************************)
(* A model of the diarization / transcription assistant.                   *)
(*                                                                         *)
(*   scripts/transcribe.py  transcribe(base_name): loads the diarization   *)
(*       turns, sorts them, collects the ASR words, aligns words to turns  *)
(*       by midpoint and writes the transcript.                            *)
(*   app.py                 upload(): save, convert, probe, validate,      *)
(*       copy, diarize, persist, respond.                                  *)
(*                                                                         *)
(* Times are integers (ticks of 0.1 s) and arithmetic on them is exact:    *)
(* the rounding of a float addition is not modelled.  The midpoint         *)
(* (start + end) / 2.0 of a word is never formed: s_start <= mid < s_end   *)
(* is compared doubled, 2 * s_start <= start + end < 2 * s_end.            *)
(* A text is a sequence of one-character strings; of the characters        *)
(* str.strip() removes, the model has the space, the tab and the newline.  *)
(***************************************************************************)
EXTENDS Integers, Sequences, FiniteSets, TLC

VARIABLES
    \* ---- scripts/transcribe.py ----
    base_name,          \* argument of transcribe()
    audio_exists,       \* os.path.isfile(AUDIO_FILE)
    diar_exists,        \* os.path.isfile(DIAR_FILE)
    diar_file,          \* content of diarization/<base_name>.json
    asr,                \* the generator model.transcribe() returned (utterances left)
    pc,                 \* position in transcribe()
    diar_segments,      \* the loaded (then sorted) turns
    words,              \* the flat word list
    di,                 \* index of the turn the alignment loop is at
    final_transcript,   \* the segments emitted so far
    origin,             \* history: per emitted segment, its turn index and word indices
    output_dir,         \* files under output/: path -> content
    saved,              \* history: the (base name, path) pairs of the runs that saved
    \* ---- app.py ----
    upc,                \* position in upload()
    request,            \* the HTTP request
    safe_base,          \* the sanitized base name
    tmp_files,          \* temporary files that exist
    audio_dir,          \* files under audio/
    diarization_dir,    \* files under diarization/
    calls,              \* history: the stages run, in order, each with its outcome
    info,               \* ffprobe_info() result
    saved_wav_path,
    segments,
    segments_json_path,
    response

tvars == <<base_name, audio_exists, diar_exists, diar_file, asr, pc, diar_segments, words, di,
           final_transcript, origin, output_dir, saved>>
uvars == <<upc, request, safe_base, tmp_files, audio_dir, diarization_dir, calls, info,
           saved_wav_path, segments, segments_json_path, response>>
vars == <<tvars, uvars>>

\* ------------------------------------------------------------------ bounds
MaxTurns == 2        \* turns in diarization/<base_name>.json
MaxWords == 2        \* words the ASR emits
MaxNameLen == 2      \* characters of a base name
MaxRuns == 2         \* runs of transcribe() against one output directory

None == "None"
NoPath == [dir |-> None, stem |-> <<>>, ext |-> None]
NoInfo == [codec_name |-> None, channels |-> None, sample_rate |-> None]
NoRequest == [has_field |-> FALSE, filename |-> <<>>]
NoResponse ==
    [status |-> 0, ok |-> FALSE, error |-> None, detail |-> None, ffprobe |-> NoInfo,
     segments |-> <<>>, saved_wav |-> NoPath, segments_json |-> NoPath]

Speakers == {"A", "B"}
Whitespace == {" ", "\t", "\n"}
WordTexts == { <<" ">>, <<" ", "a">> }

\* ------------------------------------------------------------ text helpers
RECURSIVE LStripChars(_, _)
\* str.lstrip(chars): drop leading characters while they are in chars
LStripChars(s, chars) ==
    IF s # <<>> /\ Head(s) \in chars THEN LStripChars(Tail(s), chars) ELSE s

RECURSIVE RStripChars(_, _)
RStripChars(s, chars) ==
    IF s # <<>> /\ s[Len(s)] \in chars
    THEN RStripChars(SubSeq(s, 1, Len(s) - 1), chars) ELSE s

\* str.strip(): both ends, whitespace
Strip(s) == RStripChars(LStripChars(s, Whitespace), Whitespace)

\* " ".join(seg_words): a join that puts a space between the texts
RECURSIVE JoinSpaced(_)
JoinSpaced(ts) ==
    IF ts = <<>> THEN <<>>
    ELSE IF Len(ts) = 1 THEN ts[1]
    ELSE ts[1] \o <<" ">> \o JoinSpaced(Tail(ts))

RECURSIVE Join(_)
\* "".join(seg_words)
Join(ts) == IF ts = <<>> THEN <<>> ELSE Head(ts) \o Join(Tail(ts))

\* ------------------------------------------------------------ transcribe()
InputChars == {"i", "n", "p", "u", "t"}
TranscriptPrefix == <<"t", "r", "a", "n", "s", "c", "r", "i", "p", "t">>

\* OUTPUT_FILE = os.path.join("output", f"transcript{base_name.lstrip('input')}.json")
OutputFile(b) ==
    [dir |-> "output", stem |-> TranscriptPrefix \o LStripChars(b, InputChars),
     ext |-> ".json"]

\* an insertion that puts x before the elements of its own key
RECURSIVE InsertUnstable(_, _)
InsertUnstable(s, x) ==
    IF s = <<>> THEN <<x>>
    ELSE IF Head(s).start < x.start THEN <<Head(s)>> \o InsertUnstable(Tail(s), x)
    ELSE <<x>> \o s

RECURSIVE InsertByStart(_, _)
\* x goes after every element whose key is <= its own: equal keys keep their order
InsertByStart(s, x) ==
    IF s = <<>> THEN <<x>>
    ELSE IF Head(s).start <= x.start THEN <<Head(s)>> \o InsertByStart(Tail(s), x)
    ELSE <<x>> \o s

RECURSIVE SortFrom(_, _)
SortFrom(done, rest) ==
    IF rest = <<>> THEN done ELSE SortFrom(InsertByStart(done, Head(rest)), Tail(rest))

RECURSIVE SortFromUnstable(_, _)
SortFromUnstable(done, rest) ==
    IF rest = <<>> THEN done
    ELSE SortFromUnstable(InsertUnstable(done, Head(rest)), Tail(rest))

\* a sort by start that reverses the order of equal keys
SortUnstable(s) == SortFromUnstable(<<>>, s)

\* diar_segments.sort(key=lambda s: s["start"])   (list.sort is stable)
SortByStart(s) == SortFrom(<<>>, s)

RECURSIVE Flatten(_)
\* for seg in segments: if seg.words: for w in seg.words: words.append({...})
Flatten(segs) ==
    IF segs = <<>> THEN <<>>
    ELSE (IF Head(segs).words # <<>> THEN Head(segs).words ELSE <<>>)
         \o Flatten(Tail(segs))

\* s_start <= mid <= s_end
InTurnClosed(w, dseg) ==
    2 * dseg.start <= w.start + w.end /\ w.start + w.end <= 2 * dseg.end

\* s_start < mid <= s_end
InTurnOpenStart(w, dseg) ==
    2 * dseg.start < w.start + w.end /\ w.start + w.end <= 2 * dseg.end

\* mid = (w["start"] + w["end"]) / 2.0 ; s_start <= mid < s_end
InTurn(w, dseg) ==
    2 * dseg.start <= w.start + w.end /\ w.start + w.end < 2 * dseg.end

RECURSIVE PickFrom(_, _, _)
PickFrom(ws, k, dseg) ==
    IF k > Len(ws) THEN <<>>
    ELSE (IF InTurn(ws[k], dseg) THEN <<k>> ELSE <<>>) \o PickFrom(ws, k + 1, dseg)

\* the indices of the words the inner loop appends for dseg, in word order
SegWordIx(ws, dseg) == PickFrom(ws, 1, dseg)

SegWords(ws, dseg) == [n \in 1..Len(SegWordIx(ws, dseg)) |-> ws[SegWordIx(ws, dseg)[n]].text]

\* text = "".join(seg_words).strip()
SegText(ws, dseg) == Strip(Join(SegWords(ws, dseg)))

\* ------------------------------------------------------------------ inputs
Times == 0..3

Intervals == {iv \in Times \X Times : iv[1] < iv[2]}

\* any speaker on any interval
Turns == {[speaker |-> s, start |-> iv[1], end |-> iv[2]] : s \in Speakers, iv \in Intervals}

\* two speakers taking turns: the k-th turn of the file is A's when k is odd
AlternatingTurnLists(n) ==
    UNION {{[i \in 1..k |-> [speaker |-> IF i % 2 = 1 THEN "A" ELSE "B",
                             start |-> f[i][1], end |-> f[i][2]]] :
                f \in [1..k -> Intervals]} : k \in 0..n}

\* a word lasts no time or one tick: every midpoint on the half-tick grid occurs
WordsOver(texts) ==
    {w \in [start : Times, end : Times, text : texts] :
        w.end = w.start \/ w.end = w.start + 1}

SeqsUpTo(S, n) == UNION {[1..k -> S] : k \in 0..n}

\* the ASR emits its words in temporal order, one after the other
Chronological(ws) == \A k \in 1..(Len(ws) - 1) : ws[k].end <= ws[k + 1].start

WordLists(n) == {ws \in SeqsUpTo(WordsOver(WordTexts), n) : Chronological(ws)}

\* one one-tick word "w" on each tick of a set of ticks
DenseWordLists ==
    {[k \in 1..Cardinality(S) |->
        LET t == CHOOSE x \in S : Cardinality({y \in S : y < x}) = k - 1
        IN  [start |-> t, end |-> t + 1, text |-> <<"w">>]] :
     S \in SUBSET (Times \ {3})}

\* how the ASR groups a word list into utterances: all in one, or one word per
\* utterance behind an utterance without words
Groupings(ws) ==
    { <<[words |-> ws]>>,
      <<[words |-> <<>>]>> \o [k \in 1..Len(ws) |-> [words |-> <<ws[k]>>]] }

NameChars == {"i", "t", "1", "a"}

BaseNames == UNION {[1..k -> NameChars] : k \in 1..MaxNameLen}

PathTurnLists ==
    { <<>>,
      << [speaker |-> "A", start |-> 0, end |-> 1],
         [speaker |-> "B", start |-> 1, end |-> 2] >> }

PathWordLists == { << [start |-> 0, end |-> 1, text |-> <<" ", "a">>] >> }

SampleName == <<"i", "n", "p", "u", "t", "1">>

TIdle ==
    /\ diar_segments = <<>>
    /\ words = <<>>
    /\ di = 0
    /\ final_transcript = <<>>
    /\ origin = <<>>
    /\ output_dir = <<>>
    /\ saved = {}

UIdle ==
    /\ upc = "idle"
    /\ request = NoRequest
    /\ safe_base = <<>>
    /\ tmp_files = {}
    /\ audio_dir = {}
    /\ diarization_dir = {}
    /\ calls = <<>>
    /\ info = NoInfo
    /\ saved_wav_path = NoPath
    /\ segments = <<>>
    /\ segments_json_path = NoPath
    /\ response = NoResponse

\* a run of transcribe(b) whose files hold the turns ts and whose ASR yields ws
StartRun(b, TLists, WLists) ==
    /\ base_name = b
    /\ pc = "check"
    /\ \/ /\ audio_exists = TRUE
          /\ diar_exists = TRUE
          /\ diar_file \in TLists
          /\ \E ws \in WLists : asr \in Groupings(ws)
       \/ /\ audio_exists = FALSE
          /\ diar_exists \in BOOLEAN
          /\ diar_file = <<>>
          /\ asr = <<>>
       \/ /\ audio_exists = TRUE
          /\ diar_exists = FALSE
          /\ diar_file = <<>>
          /\ asr = <<>>

\* ---------------------------------------------------------------- actions
\* lines 24-27: the sanity checks raise FileNotFoundError
RaiseNotFound ==
    /\ pc = "check"
    /\ ~audio_exists \/ ~diar_exists
    /\ pc' = "raised"
    /\ UNCHANGED <<base_name, audio_exists, diar_exists, diar_file, asr, diar_segments, words, di,
                   final_transcript, origin, output_dir, saved>>
    /\ UNCHANGED uvars

\* lines 24-35: checks pass, json.load, sort
Load ==
    /\ pc = "check"
    /\ audio_exists /\ diar_exists
    /\ diar_segments' = SortByStart(diar_file)
    /\ pc' = "asr"
    /\ UNCHANGED <<base_name, audio_exists, diar_exists, diar_file, asr, words, di,
                   final_transcript, origin, output_dir, saved>>
    /\ UNCHANGED uvars

\* lines 47-62: transcribe once and flatten the utterances' words
Collect ==
    /\ pc = "asr"
    /\ words' = Flatten(asr)
    /\ asr' = <<>>
    /\ di' = 1
    /\ pc' = "align"
    /\ UNCHANGED <<base_name, audio_exists, diar_exists, diar_file, diar_segments,
                   final_transcript, origin, output_dir, saved>>
    /\ UNCHANGED uvars

\* lines 69-81: a turn without words is skipped
AlignSkip ==
    /\ pc = "align"
    /\ di <= Len(diar_segments)
    /\ SegWords(words, diar_segments[di]) = <<>>
    /\ di' = di + 1
    /\ UNCHANGED <<base_name, audio_exists, diar_exists, diar_file, asr, pc, diar_segments, words,
                   final_transcript, origin, output_dir, saved>>
    /\ UNCHANGED uvars

\* lines 69-90: a turn with words emits a segment
AlignEmit ==
    /\ pc = "align"
    /\ di <= Len(diar_segments)
    /\ SegWords(words, diar_segments[di]) # <<>>
    /\ final_transcript' = Append(final_transcript,
            [speaker |-> diar_segments[di].speaker,
             start |-> diar_segments[di].start,
             end |-> diar_segments[di].end,
             text |-> SegText(words, diar_segments[di])])
    /\ origin' = Append(origin,
            [turn |-> di, words |-> SegWordIx(words, diar_segments[di])])
    /\ di' = di + 1
    /\ UNCHANGED <<base_name, audio_exists, diar_exists, diar_file, asr, pc, diar_segments, words,
                   output_dir, saved>>
    /\ UNCHANGED uvars

\* lines 92-94: json.dump(final_transcript) into OUTPUT_FILE
Save ==
    /\ pc = "align"
    /\ di > Len(diar_segments)
    /\ output_dir' = [p \in DOMAIN output_dir \cup {OutputFile(base_name)} |->
                        IF p = OutputFile(base_name) THEN final_transcript
                        ELSE output_dir[p]]
    /\ saved' = saved \cup {[base |-> base_name, path |-> OutputFile(base_name)]}
    /\ pc' = "done"
    /\ UNCHANGED <<base_name, audio_exists, diar_exists, diar_file, asr, diar_segments, words, di,
                   final_transcript, origin>>
    /\ UNCHANGED uvars

TNext == RaiseNotFound \/ Load \/ Collect \/ AlignSkip \/ AlignEmit \/ Save

\* a later invocation of the script, against the same output directory
NewRun ==
    /\ pc \in {"done", "raised"}
    /\ Cardinality(saved) < MaxRuns
    /\ base_name' \in BaseNames
    /\ pc' = "check"
    /\ \/ /\ audio_exists' = TRUE
          /\ diar_exists' = TRUE
          /\ diar_file' \in PathTurnLists
          /\ \E ws \in PathWordLists : asr' \in Groupings(ws)
       \/ /\ audio_exists' = FALSE
          /\ diar_exists' \in BOOLEAN
          /\ diar_file' = <<>>
          /\ asr' = <<>>
       \/ /\ audio_exists' = TRUE
          /\ diar_exists' = FALSE
          /\ diar_file' = <<>>
          /\ asr' = <<>>
    /\ diar_segments' = <<>>
    /\ words' = <<>>
    /\ di' = 0
    /\ final_transcript' = <<>>
    /\ origin' = <<>>
    /\ UNCHANGED <<output_dir, saved>>
    /\ UNCHANGED uvars

\* the end-to-end scenario, in ticks of 0.1 s
ExampleTurns ==
    << [speaker |-> "A", start |-> 0, end |-> 15],
       [speaker |-> "B", start |-> 15, end |-> 30] >>

ExampleWords ==
    << [start |-> 0, end |-> 4, text |-> <<"H", "i">>],
       [start |-> 4, end |-> 9, text |-> <<"t", "h", "e", "r", "e">>],
       [start |-> 16, end |-> 20, text |-> <<"b", "y", "e">>] >>

\* the same words as the ASR writes them, each with its leading space
SpacedWords ==
    << [start |-> 0, end |-> 4, text |-> <<" ", "H", "i">>],
       [start |-> 4, end |-> 9, text |-> <<" ", "t", "h", "e", "r", "e">>],
       [start |-> 16, end |-> 20, text |-> <<" ", "b", "y", "e">>] >>

Init ==
    /\ \/ StartRun(SampleName, AlternatingTurnLists(MaxTurns), WordLists(MaxWords))
       \/ StartRun(SampleName, {ExampleTurns}, {ExampleWords, SpacedWords})
    /\ TIdle
    /\ UIdle

Next == TNext

Spec == Init /\ [][Next]_vars

\* any turn list, words on whole ticks: the order of the output
InitOrder ==
    /\ StartRun(SampleName, SeqsUpTo(Turns, MaxTurns), DenseWordLists)
    /\ TIdle
    /\ UIdle

SpecOrder == InitOrder /\ [][Next]_vars

\* several runs, each under a base name of its own choice
InitPaths ==
    /\ \E b \in BaseNames : StartRun(b, PathTurnLists, PathWordLists)
    /\ TIdle
    /\ UIdle

NextPaths == TNext \/ NewRun

SpecPaths == InitPaths /\ [][NextPaths]_vars

\* ================================================================ upload()
SafeChars ==
    {"a", "b", "c", "d", "e", "f", "g", "h", "i", "j", "k", "l", "m",
     "n", "o", "p", "q", "r", "s", "t", "u", "v", "w", "x", "y", "z",
     "A", "B", "C", "D", "E", "F", "G", "H", "I", "J", "K", "L", "M",
     "N", "O", "P", "Q", "R", "S", "T", "U", "V", "W", "X", "Y", "Z",
     "0", "1", "2", "3", "4", "5", "6", "7", "8", "9", "_", "-"}

\* os.path.splitext(name)[0] of a name without directory separators: cut at the
\* last dot, unless only dots come before it
SplitExtRoot(name) ==
    LET dots == {x \in DOMAIN name : name[x] = "."}
        dot == IF dots = {} THEN 0 ELSE CHOOSE x \in dots : \A y \in dots : y <= x
    IN  IF dot > 0 /\ \E x \in 1..(dot - 1) : name[x] # "."
        THEN SubSeq(name, 1, dot - 1)
        ELSE name

\* re.sub(r"[^a-zA-Z0-9_-]", "_", original_name) or "audio"
SafeBase(filename) ==
    LET original_name == SplitExtRoot(filename)
        subbed == [x \in DOMAIN original_name |->
                     IF original_name[x] \in SafeChars THEN original_name[x] ELSE "_"]
    IN  IF subbed = <<>> THEN <<"a", "u", "d", "i", "o">> ELSE subbed

Filenames ==
    { <<>>,
      <<"a", ".", "m", "p", "3">>,
      <<"m", " ", "y", ".", "w", "a", "v">>,
      <<".", "w", "a", "v">> }

Requests == [has_field : BOOLEAN, filename : Filenames]

ProbeKeys == {"codec_name", "channels", "sample_rate"}

\* what the probed stream may be; None: ffprobe prints no line for that entry
ProbedStreams ==
    [codec_name : {"pcm_s16le", "pcm_s16be", "pcm_s16", "pcm_s24le", None},
     channels : {"1", "2", None},
     sample_rate : {"16000", "16000.0", "44100", None}]

Line(k, v) == IF v = None THEN <<>> ELSE <<[eq |-> TRUE, k |-> k, v |-> v]>>

\* ffprobe's stdout, line by line (-show_entries stream=..., noprint_wrappers):
\* the entries it has, in its own order, after a line that holds no "="
ProbeStdout(st) ==
    <<[eq |-> FALSE, k |-> "", v |-> ""]>>
    \o Line("codec_name", st.codec_name)
    \o Line("sample_fmt", "s16")
    \o Line("sample_rate", st.sample_rate)
    \o Line("channels", st.channels)
    \o Line("duration", "3.000000")

\* lines 93-98: info[k] = v for every line "k=v", a later line replacing an
\* earlier one; info.get(key) of a key without a line is None
ParseInfo(out) ==
    [key \in ProbeKeys |->
        LET at == {x \in DOMAIN out : out[x].eq /\ out[x].k = key}
        IN  IF at = {} THEN None
            ELSE out[CHOOSE x \in at : \A y \in at : y <= x].v]

\* the test without its channels conjunct
PassesAnyChannels(i) ==
    /\ i.codec_name \in {"pcm_s16le", "pcm_s16", "pcm_s16be"}
    /\ i.sample_rate \in {"16000", "16000.0"}

\* lines 189-193
Passes(i) ==
    /\ i.codec_name \in {"pcm_s16le", "pcm_s16", "pcm_s16be"}
    /\ i.channels = "1"
    /\ i.sample_rate \in {"16000", "16000.0"}

\* what run_diarization() may return: the tracks, boundaries rounded to 0.01 s
SegLists ==
    { <<>>,
      << [speaker |-> "SPEAKER_00", start |-> 0, end |-> 150],
         [speaker |-> "SPEAKER_01", start |-> 150, end |-> 300] >> }

SavedWavPath(b) == [dir |-> "audio", stem |-> b, ext |-> ".wav"]
SegmentsJsonPath(b) == [dir |-> "diarization", stem |-> b, ext |-> ".json"]

Call(stage, outcome, value) == [stage |-> stage, outcome |-> outcome, value |-> value]

\* return jsonify({"ok": False, "error": kind, ...}), status
Failure(status, kind, detail, probed) ==
    [NoResponse EXCEPT !.status = status, !.error = kind, !.detail = detail,
                       !.ffprobe = probed]

\* str(e) of what run_cmd raised: RuntimeError(stderr) or subprocess.TimeoutExpired
Detail(outcome) == IF outcome = "timeout" THEN "timed out after 300 seconds" ELSE "stderr"

\* lines 243-248: the finally clause unlinks the saved upload, and only that
Finally(files) == files \ {"tmp_in"}

\* lines 136-137
RejectNoField ==
    /\ upc = "start"
    /\ ~request.has_field
    /\ response' = Failure(400, "no_file_field_audio", None, NoInfo)
    /\ upc' = "returned"
    /\ UNCHANGED <<request, safe_base, tmp_files, audio_dir, diarization_dir, calls, info,
                   saved_wav_path, segments, segments_json_path>>
    /\ UNCHANGED tvars

\* lines 139-141
RejectEmptyName ==
    /\ upc = "start"
    /\ request.has_field
    /\ request.filename = <<>>
    /\ response' = Failure(400, "empty_filename", None, NoInfo)
    /\ upc' = "returned"
    /\ UNCHANGED <<request, safe_base, tmp_files, audio_dir, diarization_dir, calls, info,
                   saved_wav_path, segments, segments_json_path>>
    /\ UNCHANGED tvars

\* lines 143-165: the base name, the folders, the upload saved to a temp file
SaveUpload ==
    /\ upc = "start"
    /\ request.has_field
    /\ request.filename # <<>>
    /\ safe_base' = SafeBase(request.filename)
    /\ tmp_files' = tmp_files \cup {"tmp_in"}
    /\ upc' = "convert"
    /\ UNCHANGED <<request, audio_dir, diarization_dir, calls, info,
                   saved_wav_path, segments, segments_json_path, response>>
    /\ UNCHANGED tvars

\* lines 167-176: ffmpeg through run_cmd; a failed run may leave its output file
Convert ==
    /\ upc = "convert"
    /\ \E outcome \in {"ok", "nonzero", "timeout"} :
          /\ calls' = Append(calls, Call("convert", outcome, <<>>))
          /\ IF outcome = "ok"
             THEN /\ tmp_files' = tmp_files \cup {"out_wav"}
                  /\ upc' = "probe"
                  /\ UNCHANGED response
             ELSE /\ \E left \in SUBSET {"out_wav"} :
                        tmp_files' = Finally(tmp_files \cup left)
                  /\ response' = Failure(500, "conversion_failed", Detail(outcome), NoInfo)
                  /\ upc' = "returned"
    /\ UNCHANGED <<request, safe_base, audio_dir, diarization_dir, info,
                   saved_wav_path, segments, segments_json_path>>
    /\ UNCHANGED tvars

\* lines 178-186: ffprobe through run_cmd
Probe ==
    /\ upc = "probe"
    /\ \E outcome \in {"ok", "nonzero", "timeout"} :
          /\ calls' = Append(calls, Call("probe", outcome, <<>>))
          /\ IF outcome = "ok"
             THEN /\ \E st \in ProbedStreams : info' = ParseInfo(ProbeStdout(st))
                  /\ upc' = "validate"
                  /\ UNCHANGED <<tmp_files, response>>
             ELSE /\ tmp_files' = Finally(tmp_files)
                  /\ response' = Failure(500, "ffprobe_failed", Detail(outcome), NoInfo)
                  /\ upc' = "returned"
                  /\ UNCHANGED info
    /\ UNCHANGED <<request, safe_base, audio_dir, diarization_dir,
                   saved_wav_path, segments, segments_json_path>>
    /\ UNCHANGED tvars

\* lines 188-200
Validate ==
    /\ upc = "validate"
    /\ calls' = Append(calls, Call("validate", IF Passes(info) THEN "ok" ELSE "fail", <<>>))
    /\ IF Passes(info)
       THEN /\ upc' = "copy"
            /\ UNCHANGED <<tmp_files, response>>
       ELSE /\ tmp_files' = Finally(tmp_files)
            /\ response' = Failure(400, "validation_failed", None, info)
            /\ upc' = "returned"
    /\ UNCHANGED <<request, safe_base, audio_dir, diarization_dir, info,
                   saved_wav_path, segments, segments_json_path>>
    /\ UNCHANGED tvars

\* lines 202-209: a failed copy is printed and leaves saved_wav_path None
CopyWav ==
    /\ upc = "copy"
    /\ \E outcome \in {"ok", "raise"} :
          /\ calls' = Append(calls, Call("copy", outcome, <<>>))
          /\ IF outcome = "ok"
             THEN /\ audio_dir' = audio_dir \cup {SavedWavPath(safe_base)}
                  /\ saved_wav_path' = SavedWavPath(safe_base)
             ELSE /\ saved_wav_path' = NoPath
                  /\ UNCHANGED audio_dir
    /\ upc' = "diarize"
    /\ UNCHANGED <<request, safe_base, tmp_files, diarization_dir, info,
                   segments, segments_json_path, response>>
    /\ UNCHANGED tvars

\* lines 211-220
Diarize ==
    /\ upc = "diarize"
    /\ \/ \E segs \in SegLists :
             /\ calls' = Append(calls, Call("diarize", "ok", segs))
             /\ segments' = segs
             /\ upc' = "persist"
             /\ UNCHANGED <<tmp_files, response>>
       \/ /\ calls' = Append(calls, Call("diarize", "raise", <<>>))
          /\ tmp_files' = Finally(tmp_files)
          /\ response' = Failure(500, "diarization_failed", "exception", NoInfo)
          /\ upc' = "returned"
          /\ UNCHANGED segments
    /\ UNCHANGED <<request, safe_base, audio_dir, diarization_dir, info,
                   saved_wav_path, segments_json_path>>
    /\ UNCHANGED tvars

\* a write failure that ends the request with an error of its own
PersistJsonStrict ==
    /\ upc = "persist"
    /\ \E outcome \in {"ok", "raise"} :
          /\ calls' = Append(calls, Call("persist", outcome, <<>>))
          /\ IF outcome = "ok"
             THEN /\ diarization_dir' = diarization_dir \cup {SegmentsJsonPath(safe_base)}
                  /\ segments_json_path' = SegmentsJsonPath(safe_base)
                  /\ upc' = "respond"
                  /\ UNCHANGED <<tmp_files, response>>
             ELSE /\ segments_json_path' = NoPath
                  /\ tmp_files' = Finally(tmp_files)
                  /\ response' = Failure(500, "persistence_failed", "exception", NoInfo)
                  /\ upc' = "returned"
                  /\ UNCHANGED diarization_dir
    /\ UNCHANGED <<request, safe_base, audio_dir, info, saved_wav_path, segments>>
    /\ UNCHANGED tvars

\* lines 222-230: a failed write is printed and leaves segments_json_path None
PersistJson ==
    /\ upc = "persist"
    /\ \E outcome \in {"ok", "raise"} :
          /\ calls' = Append(calls, Call("persist", outcome, <<>>))
          /\ IF outcome = "ok"
             THEN /\ diarization_dir' = diarization_dir \cup {SegmentsJsonPath(safe_base)}
                  /\ segments_json_path' = SegmentsJsonPath(safe_base)
             ELSE /\ segments_json_path' = NoPath
                  /\ UNCHANGED diarization_dir
    /\ upc' = "respond"
    /\ UNCHANGED <<request, safe_base, tmp_files, audio_dir, info, saved_wav_path,
                   segments, response>>
    /\ UNCHANGED tvars

\* lines 232-248: the final response, then the finally clause
Respond ==
    /\ upc = "respond"
    /\ response' = [NoResponse EXCEPT !.status = 200, !.ok = TRUE, !.ffprobe = info,
                                      !.segments = segments,
                                      !.saved_wav = saved_wav_path,
                                      !.segments_json = segments_json_path]
    /\ tmp_files' = Finally(tmp_files)
    /\ upc' = "returned"
    /\ UNCHANGED <<request, safe_base, audio_dir, diarization_dir, calls, info,
                   saved_wav_path, segments, segments_json_path>>
    /\ UNCHANGED tvars

UNext ==
    \/ RejectNoField \/ RejectEmptyName \/ SaveUpload \/ Convert \/ Probe
    \/ Validate \/ CopyWav \/ Diarize \/ PersistJson \/ Respond

\* one request to POST /upload; transcribe() is not running
InitUpload ==
    /\ upc = "start"
    /\ request \in Requests
    /\ safe_base = <<>>
    /\ tmp_files = {}
    /\ audio_dir = {}
    /\ diarization_dir = {}
    /\ calls = <<>>
    /\ info = NoInfo
    /\ saved_wav_path = NoPath
    /\ segments = <<>>
    /\ segments_json_path = NoPath
    /\ response = NoResponse
    /\ base_name = <<>>
    /\ audio_exists = FALSE
    /\ diar_exists = FALSE
    /\ diar_file = <<>>
    /\ asr = <<>>
    /\ pc = "idle"
    /\ TIdle

SpecUpload == InitUpload /\ [][UNext]_vars

\* ================================================================ claims
Range(s) == {s[i] : i \in DOMAIN s}

TDone == pc = "done"

\* the half-open interval of a turn holds the midpoint of a word
HalfOpen(t, w) == 2 * t.start <= w.start + w.end /\ w.start + w.end < 2 * t.end

\* emitted segment n holds word k
Holds(n, k) == k \in Range(origin[n].words)

\* p occurs in t as a run of consecutive characters
IsInfix(p, t) ==
    \E i \in 0..(Len(t) - Len(p)) : SubSeq(t, i + 1, i + Len(p)) = p

\* out is raw without its leading and trailing whitespace
Trimmed(raw, out) ==
    /\ \E i \in 1..(Len(raw) + 1), j \in 0..Len(raw) :
          /\ out = SubSeq(raw, i, j)
          /\ \A x \in 1..(i - 1) : raw[x] \in Whitespace
          /\ \A x \in (j + 1)..Len(raw) : raw[x] \in Whitespace
    /\ out # <<>> => out[1] \notin Whitespace /\ out[Len(out)] \notin Whitespace

RECURSIVE CatTexts(_, _)
CatTexts(ws, ix) ==
    IF ix = <<>> THEN <<>> ELSE ws[Head(ix)].text \o CatTexts(ws, Tail(ix))

\* C1: for adjacent turns A = [a,b) and B = [b,c) and a word whose midpoint is b,
\* B's segment is emitted and holds the word (its trimmed text occurs in B's
\* text) and no segment of A holds it; and a segment holds a word iff
\* turn.start <= midpoint < turn.end.
C1_HalfOpenBoundary ==
    TDone =>
      /\ \A i, j \in DOMAIN diar_segments : \A k \in DOMAIN words :
            ( /\ diar_segments[i].end = diar_segments[j].start
              /\ words[k].start + words[k].end = 2 * diar_segments[j].start )
            => /\ \E n \in DOMAIN final_transcript :
                     /\ origin[n].turn = j
                     /\ Holds(n, k)
                     /\ IsInfix(Strip(words[k].text), final_transcript[n].text)
               /\ \A n \in DOMAIN final_transcript : origin[n].turn = i => ~Holds(n, k)
      /\ \A n \in DOMAIN final_transcript : \A k \in DOMAIN words :
            Holds(n, k) <=> HalfOpen(diar_segments[origin[n].turn], words[k])

C1_Witness ==
    /\ TDone
    /\ \E i, j \in DOMAIN diar_segments : \E k \in DOMAIN words :
          /\ diar_segments[i].end = diar_segments[j].start
          /\ words[k].start + words[k].end = 2 * diar_segments[j].start
          /\ Strip(words[k].text) # <<>>
          /\ \E n, m \in DOMAIN final_transcript : origin[n].turn = i /\ origin[m].turn = j

\* C2: every segment the alignment emits has a non-empty text.
C2_NonEmptyText == \A n \in DOMAIN final_transcript : final_transcript[n].text # <<>>

\* the permutation a stable sort by start applies to the turn list ts
StableOrder(ts) ==
    CHOOSE p \in [DOMAIN ts -> DOMAIN ts] :
        /\ \A i, j \in DOMAIN ts : i # j => p[i] # p[j]
        /\ \A i, j \in DOMAIN ts : i < j =>
              \/ ts[p[i]].start < ts[p[j]].start
              \/ ts[p[i]].start = ts[p[j]].start /\ p[i] < p[j]

\* C3: whatever the order of the input turns, the segments come out ascending by
\* start, in the order of the turns after a stable sort by start (equal starts
\* keep their input order), one for each turn that holds a word, each carrying
\* the speaker, start and end of its turn.
C3_OutputOrder ==
    TDone =>
      LET p == StableOrder(diar_file)
          emitting == {i \in DOMAIN diar_file :
                          \E k \in DOMAIN words : HalfOpen(diar_file[p[i]], words[k])}
      IN  /\ \A n, m \in DOMAIN final_transcript :
                n < m => /\ final_transcript[n].start <= final_transcript[m].start
                         /\ origin[n].turn < origin[m].turn
          /\ {origin[n].turn : n \in DOMAIN final_transcript} = emitting
          /\ \A n \in DOMAIN final_transcript :
                LET t == diar_file[p[origin[n].turn]]
                IN  /\ final_transcript[n].speaker = t.speaker
                    /\ final_transcript[n].start = t.start
                    /\ final_transcript[n].end = t.end

C3_Witness ==
    /\ TDone
    /\ Len(final_transcript) >= 2
    /\ \E i, j \in DOMAIN diar_file : i < j /\ diar_file[i].start > diar_file[j].start

IsExample(ws) == TDone /\ diar_file = ExampleTurns /\ words = ws

ExampleOutput(first) ==
    << [speaker |-> "A", start |-> 0, end |-> 15, text |-> first],
       [speaker |-> "B", start |-> 15, end |-> 30, text |-> <<"b", "y", "e">>] >>

\* every segment's text is its words' texts, in word order, nothing between
\* them, trimmed at both ends
JoinedAndTrimmed ==
    TDone => \A n \in DOMAIN final_transcript :
        LET ix == origin[n].words
        IN  /\ \A a, b \in DOMAIN ix : a < b => ix[a] < ix[b]
            /\ Range(ix) = {k \in DOMAIN words :
                               HalfOpen(diar_segments[origin[n].turn], words[k])}
            /\ Trimmed(CatTexts(words, ix), final_transcript[n].text)

\* C7 as stated: the words "Hi", "there", "bye" give A the text "Hi there".
C7_Original ==
    /\ IsExample(ExampleWords) =>
          final_transcript = ExampleOutput(<<"H", "i", " ", "t", "h", "e", "r", "e">>)
    /\ JoinedAndTrimmed

\* C7 (amended): the words "Hi", "there", "bye" give A the text "Hithere"; the
\* words " Hi", " there", " bye" give it "Hi there"; in general a segment's
\* text is the matching words' texts joined in word order with no separator and
\* then trimmed.
C7_JoinThenTrim ==
    /\ IsExample(ExampleWords) =>
          final_transcript = ExampleOutput(<<"H", "i", "t", "h", "e", "r", "e">>)
    /\ IsExample(SpacedWords) =>
          final_transcript = ExampleOutput(<<"H", "i", " ", "t", "h", "e", "r", "e">>)
    /\ JoinedAndTrimmed

C7_Witness == IsExample(ExampleWords) /\ Len(final_transcript) = 2

NonOverlapping(ts) ==
    \A i, j \in DOMAIN ts : i # j => ts[i].end <= ts[j].start \/ ts[j].end <= ts[i].start

InNoTurn(w) == \A i \in DOMAIN diar_segments : ~HalfOpen(diar_segments[i], w)

\* C8: when the turns are pairwise non-overlapping every word is held by at
\* most one segment; a word whose midpoint lies in no turn's half-open interval
\* is held by none (a segment's text is made of the words it holds and nothing
\* else), and the run does not raise.
C8_AtMostOneTurn ==
    /\ (TDone /\ NonOverlapping(diar_segments)) =>
          \A k \in DOMAIN words :
              Cardinality({n \in DOMAIN final_transcript : Holds(n, k)}) <= 1
    /\ TDone => \A k \in DOMAIN words : InNoTurn(words[k]) =>
          \A n \in DOMAIN final_transcript : ~Holds(n, k)
    /\ TDone => \A n \in DOMAIN final_transcript :
          Trimmed(CatTexts(words, origin[n].words), final_transcript[n].text)
    /\ (audio_exists /\ diar_exists) => pc # "raised"

C8_Witness ==
    /\ TDone
    /\ Len(diar_segments) >= 2
    /\ NonOverlapping(diar_segments)
    /\ \E k \in DOMAIN words : InNoTurn(words[k]) /\ Strip(words[k].text) # <<>>
    /\ \E k \in DOMAIN words : \E n \in DOMAIN final_transcript : Holds(n, k)

\* C10: two different base names never give the same transcript path.
C10_PathKeyedByName ==
    \A a, b \in saved : a.path = b.path => a.base = b.base

\* ---------------------------------------------------------- upload() claims
Returned == upc = "returned"

Ran(stage) == \E x \in DOMAIN calls : calls[x].stage = stage

RanWith(stage, outcome) ==
    \E x \in DOMAIN calls : calls[x].stage = stage /\ calls[x].outcome = outcome

\* 1 channel, 16000 Hz, 16-bit signed PCM little-endian
Canonical(i) ==
    i.codec_name = "pcm_s16le" /\ i.channels = "1" /\ i.sample_rate \in {"16000", "16000.0"}

\* 1 channel, 16000 Hz, 16-bit signed PCM of either byte order
SixteenBitMono16k(i) ==
    /\ i.codec_name \in {"pcm_s16le", "pcm_s16be", "pcm_s16"}
    /\ i.channels = "1"
    /\ i.sample_rate \in {"16000", "16000.0"}

\* the request ended with validation_failed carrying the probe info, undiarized
EndedValidationFailed ==
    /\ response.ok = FALSE
    /\ response.status = 400
    /\ response.error = "validation_failed"
    /\ response.ffprobe = info
    /\ ~Ran("diarize")

\* C4 as stated: diarization runs only on a stream probed as exactly 1 channel,
\* 16000 Hz, pcm_s16le; any other probed format ends with validation_failed.
C4_Original ==
    /\ Ran("diarize") => Canonical(info)
    /\ (Returned /\ RanWith("probe", "ok") /\ ~Canonical(info)) => EndedValidationFailed

\* C4 (amended): diarization runs only on a stream probed as 1 channel, 16000 Hz
\* and 16-bit signed PCM of either byte order (codec_name pcm_s16le, pcm_s16 or
\* pcm_s16be); any other probed format, channels=2 and sample_rate=44100 among
\* them, ends with validation_failed carrying the probe info, and
\* run_diarization is never called.
C4_ValidationGate ==
    /\ Ran("diarize") => SixteenBitMono16k(info)
    /\ (Returned /\ RanWith("probe", "ok") /\ ~SixteenBitMono16k(info))
          => EndedValidationFailed
    /\ (Returned /\ RanWith("probe", "ok")
          /\ (info.channels = "2" \/ info.sample_rate = "44100"))
          => EndedValidationFailed

C4_Witness ==
    /\ Returned
    /\ info.codec_name = "pcm_s16le" /\ info.channels = "2" /\ info.sample_rate = "16000"
    /\ response.error = "validation_failed"

\* C5: when upload() has returned, every temporary file of the request (the
\* saved upload and the converted WAV) is gone.
C5_TempFilesDeleted == Returned => tmp_files = {}

\* C6: once diarization has succeeded the request ends ok with the segments the
\* diarization returned; saved_wav is null exactly when the copy failed and
\* segments_json is null exactly when the JSON write failed.
C6_PersistFailureIsNotAnError ==
    (Returned /\ RanWith("diarize", "ok")) =>
        /\ response.ok = TRUE
        /\ response.status = 200
        /\ response.error = None
        /\ \E x \in DOMAIN calls :
              calls[x].stage = "diarize" /\ response.segments = calls[x].value
        /\ response.saved_wav = (IF RanWith("copy", "raise") THEN NoPath
                                 ELSE SavedWavPath(safe_base))
        /\ response.segments_json = (IF RanWith("persist", "raise") THEN NoPath
                                     ELSE SegmentsJsonPath(safe_base))
        /\ response.saved_wav # NoPath => response.saved_wav \in audio_dir
        /\ response.segments_json # NoPath => response.segments_json \in diarization_dir

C6_Witness ==
    /\ Returned
    /\ RanWith("diarize", "ok")
    /\ RanWith("persist", "raise")
    /\ response.ok = TRUE
    /\ response.segments # <<>>
    /\ response.segments_json = NoPath

StageOrder == <<"convert", "probe", "validate", "copy", "diarize", "persist">>

\* the error kind of an ordinary failure of a stage
KindOf(stage) ==
    CASE stage = "convert" -> "conversion_failed"
      [] stage = "probe" -> "ffprobe_failed"
      [] stage = "validate" -> "validation_failed"
      [] stage = "diarize" -> "diarization_failed"
      [] OTHER -> None

Fatal(c) == c.stage \in {"convert", "probe", "validate", "diarize"} /\ c.outcome # "ok"

\* the stages run in order, the first that fails is the last that runs and the
\* request ends with that stage's kind
FailFast ==
    /\ \A x \in DOMAIN calls : calls[x].stage = StageOrder[x]
    /\ \A x \in DOMAIN calls : Fatal(calls[x]) =>
          /\ x = Len(calls)
          /\ Returned
          /\ response.ok = FALSE
          /\ response.error = KindOf(calls[x].stage)
    /\ (Returned /\ response.error \in {KindOf(st) : st \in Range(StageOrder)} \ {None})
          => \E x \in DOMAIN calls :
                Fatal(calls[x]) /\ response.error = KindOf(calls[x].stage)
    /\ Cardinality({KindOf(st) : st \in {"convert", "probe", "validate", "diarize"}}) = 4

\* C9: the stages run in order, the first failure ends the request with its own
\* kind and nothing runs after it, and a timeout of an external tool is not
\* reported under the kind of an ordinary failure of that tool.
C9_FailFastDistinctKinds ==
    /\ FailFast
    /\ \A x \in DOMAIN calls :
          (Returned /\ calls[x].outcome = "timeout")
              => response.error # KindOf(calls[x].stage)
=============================================================================
